---- MODULE Spec2Model ----
(***************************************************************************)
(* Address-resolution pipeline of reseller-map-clean.                      *)
(*                                                                         *)
(* The repository holds three versions of lib/geocode.ts (geocodeAddress)  *)
(* and three versions of pages/api/geocode.ts (handler).  A deployment     *)
(* runs one of each; the model keeps the choice in impl and hnd:           *)
(*   impl = "hint"   src/unnamed/part_003  normalise, cache, OpenCage      *)
(*                                         with country hints              *)
(*   impl = "osm"    src/unnamed/part_000  memory map, OpenCage, Nominatim *)
(*   impl = "simple" src/lib/geocode.ts    cache, one OpenCage query       *)
(*   hnd  = "seq"    src/unnamed/part_004:8-49   batch, try/catch per item *)
(*   hnd  = "one"    src/unnamed/part_004:55-82  one address per request   *)
(*   hnd  = "batch"  src/pages/api/geocode.ts:4-27  batch, one try/catch   *)
(*                                                                         *)
(* Strings are sequences of one-character strings, so that the regular     *)
(* expressions of the source are computed, not assumed.                    *)
(***************************************************************************)
EXTENDS Integers, Sequences, FiniteSets, TLC

(***************************************************************************)
(* Characters and string helpers                                           *)
(***************************************************************************)
UpperSeq ==
  <<"A","B","C","D","E","F","G","H","I","J","K","L","M",
    "N","O","P","Q","R","S","T","U","V","W","X","Y","Z">>

LowerSeq ==
  <<"a","b","c","d","e","f","g","h","i","j","k","l","m",
    "n","o","p","q","r","s","t","u","v","w","x","y","z">>

UpperSet == {UpperSeq[i] : i \in 1..Len(UpperSeq)}

Digits == {"0","1","2","3","4","5","6","7","8","9"}

\* \s of the regular expressions and the characters String.prototype.trim drops
WS == {" ", "\t", "\n", "\r"}

\* [\r\n]
NL == {"\n", "\r"}

\* ["']
Quotes == {"\"", "'"}

RECURSIVE DropWhile(_, _)
DropWhile(s, set) ==
  IF s # <<>> /\ Head(s) \in set THEN DropWhile(Tail(s), set) ELSE s

RECURSIVE DropWhileEnd(_, _)
DropWhileEnd(s, set) ==
  IF s # <<>> /\ s[Len(s)] \in set
  THEN DropWhileEnd(SubSeq(s, 1, Len(s) - 1), set)
  ELSE s

\* String.prototype.trim
Trim(s) == DropWhileEnd(DropWhile(s, WS), WS)

ToLowerChar(c) ==
  IF \E i \in 1..Len(UpperSeq) : UpperSeq[i] = c
  THEN LowerSeq[CHOOSE i \in 1..Len(UpperSeq) : UpperSeq[i] = c]
  ELSE c

\* String.prototype.toLowerCase
ToLower(s) == [i \in 1..Len(s) |-> ToLowerChar(s[i])]

\* String.prototype.includes
Includes(s, sub) ==
  \E i \in 0..(Len(s) - Len(sub)) : \A j \in 1..Len(sub) : s[i + j] = sub[j]

(***************************************************************************)
(* normalizeAddress, src/unnamed/part_003:10-16                            *)
(***************************************************************************)
\* .replace(/[\r\n]+/g, ', ')
RECURSIVE ReplaceNewlines(_)
ReplaceNewlines(s) ==
  IF s = <<>> THEN <<>>
  ELSE IF Head(s) \in NL
       THEN <<",", " ">> \o ReplaceNewlines(DropWhile(s, NL))
       ELSE <<Head(s)>> \o ReplaceNewlines(Tail(s))

\* .replace(/\s{2,}/g, ' ')
RECURSIVE CollapseSpaces(_)
CollapseSpaces(s) ==
  IF s = <<>> THEN <<>>
  ELSE IF Len(s) >= 2 /\ s[1] \in WS /\ s[2] \in WS
       THEN <<" ">> \o CollapseSpaces(DropWhile(s, WS))
       ELSE <<Head(s)>> \o CollapseSpaces(Tail(s))

\* .replace(/^["']+|["']+$/g, '')
StripQuotes(s) == DropWhileEnd(DropWhile(s, Quotes), Quotes)

normalizeAddress(raw) ==
  Trim(StripQuotes(CollapseSpaces(ReplaceNewlines(raw))))

(***************************************************************************)
(* Country hints, src/unnamed/part_003:4-31                                *)
(***************************************************************************)
US_STATES ==
  {<<"A","L">>, <<"A","K">>, <<"A","Z">>, <<"A","R">>, <<"C","A">>,
   <<"C","O">>, <<"C","T">>, <<"D","E">>, <<"F","L">>, <<"G","A">>,
   <<"H","I">>, <<"I","D">>, <<"I","L">>, <<"I","N">>, <<"I","A">>,
   <<"K","S">>, <<"K","Y">>, <<"L","A">>, <<"M","E">>, <<"M","D">>,
   <<"M","A">>, <<"M","I">>, <<"M","N">>, <<"M","S">>, <<"M","O">>,
   <<"M","T">>, <<"N","E">>, <<"N","V">>, <<"N","H">>, <<"N","J">>,
   <<"N","M">>, <<"N","Y">>, <<"N","C">>, <<"N","D">>, <<"O","H">>,
   <<"O","K">>, <<"O","R">>, <<"P","A">>, <<"R","I">>, <<"S","C">>,
   <<"S","D">>, <<"T","N">>, <<"T","X">>, <<"U","T">>, <<"V","T">>,
   <<"V","A">>, <<"W","A">>, <<"W","V">>, <<"W","I">>, <<"W","Y">>,
   <<"D","C">>}

\* (\s+\d{5}(-\d{4})?)?$ applied to what follows the two letters
IsZipTail(t) ==
  \/ t = <<>>
  \/ /\ t # <<>>
     /\ t[1] \in WS
     /\ LET z == DropWhile(t, WS)
        IN  /\ Len(z) \in {5, 10}
            /\ \A i \in 1..5 : z[i] \in Digits
            /\ Len(z) = 10 =>
                 /\ z[6] = "-"
                 /\ \A i \in 7..10 : z[i] \in Digits

\* address.match(/,\s*([A-Z]{2})(\s+\d{5}(-\d{4})?)?$/) && US_STATES.has(m[1])
looksLikeUS(address) ==
  \E i \in 1..Len(address) :
    /\ address[i] = ","
    /\ LET r == DropWhile(SubSeq(address, i + 1, Len(address)), WS)
       IN  /\ Len(r) >= 2
           /\ r[1] \in UpperSet
           /\ r[2] \in UpperSet
           /\ IsZipTail(SubSeq(r, 3, Len(r)))
           /\ <<r[1], r[2]>> \in US_STATES

hints ==
  <<<<"F","r","a","n","c","e">>,
    <<"U","S","A">>,
    <<"U","n","i","t","e","d"," ","S","t","a","t","e","s">>,
    <<"U","n","i","t","e","d"," ","K","i","n","g","d","o","m">>,
    <<"U","K">>,
    <<"C","h","i","n","a">>,
    <<"T","a","i","w","a","n">>,
    <<"K","o","r","e","a">>,
    <<"R","e","p","u","b","l","i","c"," ","o","f"," ","K","o","r","e","a">>,
    <<"J","a","p","a","n">>,
    <<"S","i","n","g","a","p","o","r","e">>,
    <<"L","e","b","a","n","o","n">>,
    <<"A","u","s","t","r","a","l","i","a">>,
    <<"N","e","t","h","e","r","l","a","n","d","s">>,
    <<"H","o","l","l","a","n","d">>,
    <<"B","e","l","g","i","u","m">>,
    <<"C","a","n","a","d","a">>,
    <<"I","t","a","l","i","a">>,
    <<"I","t","a","l","y">>>>

\* h.toLowerCase() for each h of hints
hintsLower == [k \in 1..Len(hints) |-> ToLower(hints[k])]

\* hints.some(h => a.includes(h.toLowerCase())) with a = address.toLowerCase()
hasCountryWord(address) ==
  LET a == ToLower(address)
  IN  \E k \in 1..Len(hints) : Includes(a, hintsLower[k])

fallbacks ==
  <<<<"F","r","a","n","c","e">>,
    <<"U","n","i","t","e","d"," ","K","i","n","g","d","o","m">>,
    <<"S","i","n","g","a","p","o","r","e">>,
    <<"A","u","s","t","r","a","l","i","a">>,
    <<"C","h","i","n","a">>,
    <<"J","a","p","a","n">>,
    <<"K","o","r","e","a">>,
    <<"N","e","t","h","e","r","l","a","n","d","s">>>>

\* `${cleaned}, ${c}`
WithCountry(cleaned, c) == cleaned \o <<",", " ">> \o c

USA == <<"U","S","A">>


(***************************************************************************)
(* JavaScript values of a provider's JSON answer                           *)
(***************************************************************************)
JNum(n) == [t |-> "number", n |-> n]

JStr(s) == [t |-> "string", s |-> s]

JUndef == [t |-> "undefined"]

JNaN == [t |-> "nan"]

\* null, the "introuvable" result of geocodeAddress and getCoords
NULL == [null |-> TRUE]

\* typeof v === 'number' (NaN is a number to typeof)
TypeofNumber(v) == v.t \in {"number", "nan"}

\* Number.isFinite(v)
IsFinite(v) == v.t = "number"

\* the decimal strings of the model and the numbers they denote
ParseTable == [s \in {"48", "2", "-33", "151"} |->
                 CASE s = "48" -> 48 [] s = "2" -> 2
                   [] s = "-33" -> 0 - 33 [] s = "151" -> 151]

\* parseFloat(v): a number is kept, a decimal string is read, anything else is NaN
parseFloat(v) ==
  CASE v.t = "number" -> v
    [] v.t = "string" -> IF v.s \in DOMAIN ParseTable THEN JNum(ParseTable[v.s]) ELSE JNaN
    [] OTHER -> JNaN

(***************************************************************************)
(* Inputs: raw addresses, provider answers                                 *)
(***************************************************************************)
A_US == <<"5"," ","S","t",","," ","N","Y">>

A_UKCA == <<"U","K",","," ","C","A">>

A_PLAIN == <<"R","u","e"," ","9">>

A_QUOTED == <<"'","R","u","e"," ","9","'">>

A_PADDED == <<" ","R","u","e"," ","9">>

A_QQ == <<"'","'">>

\* US-shaped; a country word and US-shaped; neither; quoted and padded forms of
\* the same place; quotes only (normalises to the empty string)
RawAddresses == {A_US, A_UKCA, A_PLAIN, A_QUOTED, A_PADDED, A_QQ}

\* the longest addresses array of a request
MaxBatch == 2

\* the number of requests of a run
MaxRequests == 2

Bodies == UNION {[1..n -> RawAddresses] : n \in 0..MaxBatch}

\* geometry objects of OpenCage's first result
GoodGeo == {[lat |-> JNum(48), lng |-> JNum(2)], [lat |-> JNum(0 - 33), lng |-> JNum(151)]}

BadGeo == {[lat |-> JUndef, lng |-> JNum(2)], [lat |-> JStr("n/a"), lng |-> JNum(2)]}

\* first elements of Nominatim's array: lat and lon are strings
GoodPlace == {[lat |-> JStr("48"), lon |-> JStr("2")], [lat |-> JStr("-33"), lon |-> JStr("151")]}

BadPlace == {[lat |-> JStr("n/a"), lon |-> JStr("2")]}

\* no fetch of the call has been answered yet
NoAnswer == [kind |-> "none"]

\* what one fetch can come to: the promise rejects (transport failure, or a
\* body that is no JSON), a status that is not ok, no result, a first result
OpenCageAnswers ==
  {[kind |-> "reject"], [kind |-> "http"], [kind |-> "empty"]}
    \cup {[kind |-> "first", g |-> g] : g \in GoodGeo \cup BadGeo}

NominatimAnswers ==
  {[kind |-> "reject"], [kind |-> "http"], [kind |-> "empty"]}
    \cup {[kind |-> "first", g |-> g] : g \in GoodPlace \cup BadPlace}

(***************************************************************************)
(* State                                                                   *)
(***************************************************************************)
VARIABLES
  impl,      \* the deployed version of geocodeAddress
  hnd,       \* the deployed version of the /api/geocode handler
  key,       \* process.env.OPENCAGE_KEY is set
  dbUp,      \* the database file of src/lib/cache.ts can be read and written
  cache,     \* table geo_cache: address -> [lat, lng]   (src/lib/cache.ts)
  mem,       \* const mem = new Map()                    (src/unnamed/part_000:11)
  hpc,       \* where the handler stands
  body,      \* the addresses of the request being served
  uniq,      \* the addresses the handler iterates over
  idx,       \* the handler's loop index (1-based)
  out,       \* the handler's result array
  status,    \* HTTP status of the last response, 0 before the first
  calls,     \* history: outcome of each geocodeAddress call of this request
  nreq,      \* number of requests received so far
  mismatch,  \* history: MAP_SECRET was set and the request's key was not it
  slept,     \* history: the request has slept since its last OpenCage query
  pc,        \* where the running geocodeAddress call stands
  address,   \* its argument
  cleaned,   \* its cache key / bare query text
  fbi,       \* index in fallbacks of the query in flight
  reqs,      \* history: the provider requests of this call, in order
  answers,   \* history: what became of each of them ("null", "hit", "reject")
  lastAnswer, \* history: the last provider answer
  writes,    \* history: the cache writes of this call
  hitAtCall, \* history: the call found its key in the cache
  lookups,   \* history: the number of cache reads of this call
  result,    \* how the call ended
  raw,       \* normalizeAddress alone: its argument
  once,      \* normalizeAddress(raw)
  twice,     \* normalizeAddress(normalizeAddress(raw))
  npc,       \* how many times normalizeAddress has been applied
  customers, \* the page: the addresses of enriched, one per customer
  stored,    \* the page: the geocode cache kept in localStorage
  geoCache,  \* the run's cache object            (src/unnamed/part_001:187)
  cancelled, \* let cancelled                     (src/unnamed/part_001:184)
  addrs,     \* const addrs                       (src/unnamed/part_001:189)
  idxRef,    \* idxRef.i                          (src/unnamed/part_001:232)
  results,   \* const results                     (src/unnamed/part_001:233)
  wpc,       \* where each worker stands
  waddr,     \* the address each worker holds
  mpc,       \* where the effect's async function stands
  markers,   \* the customers that have a marker on the map
  fetched,   \* history: the addresses a fetch was started for, in order
  lateWrites, \* history: the addresses cached after the cancellation
  taken,     \* history: the addresses the workers dequeued, in order
  okCount,   \* useState okCount                 (src/unnamed/part_001:93)
  failCount, \* useState failCount               (src/unnamed/part_001:94)
  progress,  \* useState progress: done, total   (src/unnamed/part_001:92)
  nrun,      \* the number of runs of the effect so far
  stale,     \* the fetches of the run before that are still awaited
  staleLen,  \* addrs.length of the run before
  staleCache, \* the cache object of the run before
  rows,      \* the cache alone: the rows of geo_cache, in insertion order
  geo_cache, \* the cache alone: the table as the map the server model uses
  lastPut,   \* history: for each address, the pair of its last setCoords
  nput,      \* the number of setCoords calls so far
  got        \* the getCoords call made since the last setCoords, if any

normVars == <<raw, once, twice, npc>>

\* the variables of the studies of single functions, which the server leaves alone
countVars == <<okCount, failCount, progress>>

staleVars == <<nrun, stale, staleLen, staleCache>>

poolVars == <<customers, stored, geoCache, cancelled, addrs, idxRef, results, wpc,
              waddr, mpc, markers, fetched, lateWrites, taken, countVars, staleVars>>

tableVars == <<rows, geo_cache, lastPut, nput, got>>

sideVars == <<normVars, poolVars, tableVars>>

vars == <<impl, hnd, key, dbUp, mismatch, cache, mem, hpc, body, uniq, idx, out, status, calls,
          nreq, slept, pc, address, cleaned, fbi, reqs, answers, lastAnswer, writes,
          hitAtCall, lookups, result, sideVars>>

\* what the handler's loop and geocodeAddress leave alone
envVars == <<impl, hnd, key, dbUp, mismatch, sideVars>>

handlerVars == <<hpc, body, uniq, idx, out, status, calls, nreq, slept>>

callVars ==
  <<pc, address, cleaned, fbi, reqs, answers, lastAnswer, writes, hitAtCall, lookups,
    result>>

\* normalizeAddress has not been called
NormIdle ==
  /\ raw = <<>>
  /\ once = <<>>
  /\ twice = <<>>
  /\ npc = 0

\* const CONCURRENCY = 3, src/unnamed/part_001:231
CONCURRENCY == 3

Workers == 1..CONCURRENCY

\* the page's effect has not run
PoolIdle ==
  /\ customers = <<>>
  /\ stored = <<>>
  /\ geoCache = <<>>
  /\ cancelled = FALSE
  /\ addrs = <<>>
  /\ idxRef = 0
  /\ results = <<>>
  /\ wpc = [w \in Workers |-> "off"]
  /\ waddr = [w \in Workers |-> <<>>]
  /\ mpc = "start"
  /\ markers = {}
  /\ fetched = <<>>
  /\ lateWrites = {}
  /\ taken = <<>>
  /\ okCount = 0
  /\ failCount = 0
  /\ progress = [done |-> 0, total |-> 0]
  /\ nrun = 0
  /\ stale = {}
  /\ staleLen = 0
  /\ staleCache = <<>>

\* the cache module has not been called
TableIdle ==
  /\ rows = <<>>
  /\ geo_cache = <<>>
  /\ lastPut = <<>>
  /\ nput = 0
  /\ got = NULL

Init ==
  /\ NormIdle
  /\ PoolIdle
  /\ TableIdle
  /\ impl \in {"hint", "osm", "simple"}
  /\ hnd \in {"seq", "one", "batch"}
  /\ key \in BOOLEAN
  /\ dbUp = TRUE
  /\ cache = <<>>
  /\ mem = <<>>
  /\ hpc = "idle"
  /\ body = <<>>
  /\ uniq = <<>>
  /\ idx = 1
  /\ out = <<>>
  /\ status = 0
  /\ calls = <<>>
  /\ nreq = 0
  /\ mismatch = FALSE
  /\ slept = TRUE
  /\ pc = "none"
  /\ address = <<>>
  /\ cleaned = <<>>
  /\ fbi = 0
  /\ reqs = <<>>
  /\ answers = <<>>
  /\ lastAnswer = NoAnswer
  /\ writes = <<>>
  /\ hitAtCall = FALSE
  /\ lookups = 0
  /\ result = NULL


(***************************************************************************)
(* The durable cache, src/lib/cache.ts                                     *)
(***************************************************************************)
\* better-sqlite3 binds numbers and strings; undefined is a TypeError and NaN
\* is bound as NULL, which the NOT NULL columns refuse
CanBind(v) == v.t \in {"number", "string"}

\* a REAL column keeps a number, turns a decimal text into a number and keeps
\* any other text as it is
SqlReal(v) ==
  IF v.t = "string" /\ v.s \in DOMAIN ParseTable THEN JNum(ParseTable[v.s]) ELSE v

\* mutant of getCoords: the lookup never finds a row
getCoords_Miss(table, a) == NULL

\* SELECT lat, lng FROM geo_cache WHERE address = ?
getCoords(table, a) ==
  IF a \in DOMAIN table THEN [lat |-> table[a].lat, lng |-> table[a].lng] ELSE NULL

\* mutant of setCoords: a row that exists is kept as it is (INSERT OR IGNORE)
setCoords_KeepOld(t, a, lat, lng) ==
  IF a \in DOMAIN t THEN t
  ELSE [x \in DOMAIN t \cup {a} |->
          IF x = a THEN [lat |-> SqlReal(lat), lng |-> SqlReal(lng)] ELSE t[x]]

\* REPLACE INTO geo_cache(address, lat, lng, updated_at)
setCoords(table, a, lat, lng) ==
  [x \in DOMAIN table \cup {a} |->
     IF x = a THEN [lat |-> SqlReal(lat), lng |-> SqlReal(lng)] ELSE table[x]]

\* Map.prototype.set
MapSet(m, k, v) == [x \in DOMAIN m \cup {k} |-> IF x = k THEN v ELSE m[x]]

(***************************************************************************)
(* How a call of geocodeAddress ends                                       *)
(***************************************************************************)
Value(v) == [kind |-> "value", val |-> v]

Thrown(e) == [kind |-> "throw", err |-> e]

MissingKey == "Missing OPENCAGE_KEY"

\* what better-sqlite3 throws from prepare, get or run when the file cannot be
\* read or written
StoreError == "SqliteError"

Return(v) ==
  /\ pc' = "ret"
  /\ result' = Value(v)

Throw(e) ==
  /\ pc' = "ret"
  /\ result' = Thrown(e)

OpenCage(q) == [prov |-> "opencage", q |-> q]

Nominatim(q) == [prov |-> "nominatim", q |-> q]

(***************************************************************************)
(* geocodeAddress with country hints, src/unnamed/part_003                 *)
(***************************************************************************)
\* what tryGeocode makes of the answer to its fetch (lines 40-47)
tryGeocodeResult(a) ==
  CASE a.kind = "reject" -> Thrown("fetch failed")
    [] a.kind = "http" -> Value(NULL)
    [] a.kind = "empty" -> Value(NULL)
    [] a.kind = "first" -> Value([lat |-> a.g.lat, lng |-> a.g.lng])

\* mutant of tryGeocode: the query for the next country is sent along with q,
\* without waiting for the answer to q
tryGeocode_NoAwait(q, stage, i) ==
  IF ~key
  THEN /\ Throw(MissingKey)
       /\ UNCHANGED <<reqs, fbi, cache, writes>>
  ELSE /\ reqs' = reqs \o <<OpenCage(q), OpenCage(WithCountry(q, fallbacks[1]))>>
       /\ pc' = stage
       /\ fbi' = i
       /\ UNCHANGED <<result, cache, writes>>

\* tryGeocode(q) up to its fetch (lines 34-40): the key is checked first
tryGeocode(q, stage, i) ==
  IF ~key
  THEN /\ Throw(MissingKey)
       /\ UNCHANGED <<reqs, fbi, cache, writes>>
  ELSE /\ reqs' = Append(reqs, OpenCage(q))
       /\ pc' = stage
       /\ fbi' = i
       /\ UNCHANGED <<result, cache, writes>>

\* mutant of HintFinish: the row is keyed by the text of the last query
HintFinish_QueryKey(hit) ==
  IF hit = NULL
  THEN /\ Return(NULL)
       /\ UNCHANGED <<reqs, fbi, cache, writes>>
  ELSE IF CanBind(hit.lat) /\ CanBind(hit.lng)
       THEN /\ cache' = setCoords(cache, reqs[Len(reqs)].q, hit.lat, hit.lng)
            /\ writes' = Append(writes, [store |-> "db", key |-> reqs[Len(reqs)].q,
                                         val |-> cache'[reqs[Len(reqs)].q]])
            /\ Return(hit)
            /\ UNCHANGED <<reqs, fbi>>
       ELSE /\ Throw("sqlite bind")
            /\ UNCHANGED <<reqs, fbi, cache, writes>>

\* lines 74-76: setCoords is called outside any try, what it throws ends the call
HintFinish(hit) ==
  IF hit = NULL
  THEN /\ Return(NULL)
       /\ UNCHANGED <<reqs, fbi, cache, writes>>
  ELSE IF ~dbUp
       THEN /\ Throw(StoreError)
            /\ UNCHANGED <<reqs, fbi, cache, writes>>
       ELSE IF CanBind(hit.lat) /\ CanBind(hit.lng)
            THEN /\ cache' = setCoords(cache, cleaned, hit.lat, hit.lng)
                 /\ writes' = Append(writes, [store |-> "db", key |-> cleaned,
                                              val |-> cache'[cleaned]])
                 /\ Return(hit)
                 /\ UNCHANGED <<reqs, fbi>>
            ELSE /\ Throw("sqlite bind")
                 /\ UNCHANGED <<reqs, fbi, cache, writes>>

\* mutant of HintFallbacks: the sweep is entered without the country-word test
HintFallbacks_NoCountryTest(hit) ==
  IF hit = NULL
  THEN tryGeocode(WithCountry(cleaned, fallbacks[1]), "fb", 1)
  ELSE HintFinish(hit)

\* lines 65-72, entered with hit = null
HintFallbacks(hit) ==
  IF hit = NULL /\ ~hasCountryWord(cleaned)
  THEN tryGeocode(WithCountry(cleaned, fallbacks[1]), "fb", 1)
  ELSE HintFinish(hit)

\* lines 60-63
HintUSA(hit) ==
  IF hit = NULL /\ ~hasCountryWord(cleaned) /\ looksLikeUS(cleaned)
  THEN tryGeocode(WithCountry(cleaned, USA), "usa", 0)
  ELSE HintFallbacks(hit)

\* line 70 and the loop's next turn
HintNextFallback(hit) ==
  IF hit # NULL \/ fbi = Len(fallbacks)
  THEN HintFinish(hit)
  ELSE tryGeocode(WithCountry(cleaned, fallbacks[fbi + 1]), "fb", fbi + 1)

AnswerClass(r) ==
  IF r.kind = "throw" THEN "reject" ELSE IF r.val = NULL THEN "null" ELSE "hit"

\* mutant of HintStart: the cache is read before the empty test
HintStart_LookupFirst ==
  /\ impl = "hint"
  /\ hpc = "call"
  /\ pc = "none"
  /\ hpc' = "await"
  /\ address' = uniq[idx]
  /\ cleaned' = normalizeAddress(uniq[idx])
  /\ answers' = <<>>
  /\ lastAnswer' = NoAnswer
  /\ writes' = <<>>
  /\ hitAtCall' = (cleaned' \in DOMAIN cache)
  /\ lookups' = 1
  /\ IF cleaned' = <<>>
     THEN /\ Return(NULL)
          /\ reqs' = <<>>
     ELSE IF getCoords(cache, cleaned') # NULL
          THEN /\ Return(getCoords(cache, cleaned'))
               /\ reqs' = <<>>
          ELSE IF ~key
               THEN /\ Throw(MissingKey)
                    /\ reqs' = <<>>
               ELSE /\ reqs' = <<OpenCage(cleaned')>>
                    /\ pc' = "bare"
                    /\ UNCHANGED <<result>>
  /\ slept' = (slept /\ reqs' = <<>>)
  /\ UNCHANGED <<fbi, cache>>
  /\ UNCHANGED <<envVars, mem, body, uniq, idx, out, status, calls, nreq>>

\* the call's prefix up to its first await (lines 51-58); getCoords is called
\* outside any try, what it throws ends the call
HintStart ==
  /\ impl = "hint"
  /\ hpc = "call"
  /\ pc = "none"
  /\ hpc' = "await"
  /\ address' = uniq[idx]
  /\ cleaned' = normalizeAddress(uniq[idx])
  /\ answers' = <<>>
  /\ lastAnswer' = NoAnswer
  /\ writes' = <<>>
  /\ hitAtCall' = (dbUp /\ cleaned' \in DOMAIN cache)
  /\ lookups' = IF cleaned' = <<>> THEN 0 ELSE 1
  /\ IF cleaned' = <<>>
     THEN /\ Return(NULL)
          /\ reqs' = <<>>
     ELSE IF ~dbUp
          THEN /\ Throw(StoreError)
               /\ reqs' = <<>>
          ELSE IF getCoords(cache, cleaned') # NULL
               THEN /\ Return(getCoords(cache, cleaned'))
                    /\ reqs' = <<>>
               ELSE IF ~key
                    THEN /\ Throw(MissingKey)
                         /\ reqs' = <<>>
                    ELSE /\ reqs' = <<OpenCage(cleaned')>>
                         /\ pc' = "bare"
                         /\ UNCHANGED <<result>>
  /\ slept' = (slept /\ reqs' = <<>>)
  /\ UNCHANGED <<fbi, cache>>
  /\ UNCHANGED <<envVars, mem, body, uniq, idx, out, status, calls, nreq>>

\* the continuation of an awaited tryGeocode, given its answer
HintResume(a, stage) ==
  /\ answers' = Append(answers, AnswerClass(tryGeocodeResult(a)))
  /\ lastAnswer' = a
  /\ IF tryGeocodeResult(a).kind = "throw"
     THEN /\ Throw(tryGeocodeResult(a).err)
          /\ UNCHANGED <<reqs, fbi, cache, writes>>
     ELSE CASE stage = "bare" -> HintUSA(tryGeocodeResult(a).val)
            [] stage = "usa" -> HintFallbacks(tryGeocodeResult(a).val)
            [] stage = "fb" -> HintNextFallback(tryGeocodeResult(a).val)
  /\ slept' = (slept /\ reqs' = reqs)
  /\ UNCHANGED <<envVars, hpc, body, uniq, idx, out, status, calls, nreq, mem, address,
                 cleaned, hitAtCall, lookups>>

HintAfterBare ==
  /\ impl = "hint"
  /\ pc = "bare"
  /\ \E a \in OpenCageAnswers : HintResume(a, "bare")

HintAfterUSA ==
  /\ impl = "hint"
  /\ pc = "usa"
  /\ \E a \in OpenCageAnswers : HintResume(a, "usa")

HintAfterFallback ==
  /\ impl = "hint"
  /\ pc = "fb"
  /\ \E a \in OpenCageAnswers : HintResume(a, "fb")

(***************************************************************************)
(* geocodeAddress with the Nominatim fallback, src/unnamed/part_000        *)
(***************************************************************************)
\* lines 14-28: trim, memory map, OpenCage when there is a key
OsmStart ==
  /\ impl = "osm"
  /\ hpc = "call"
  /\ pc = "none"
  /\ hpc' = "await"
  /\ address' = uniq[idx]
  /\ cleaned' = Trim(uniq[idx])
  /\ answers' = <<>>
  /\ lastAnswer' = NoAnswer
  /\ writes' = <<>>
  /\ hitAtCall' = (cleaned' \in DOMAIN mem)
  /\ lookups' = IF cleaned' = <<>> THEN 0 ELSE 1
  /\ IF cleaned' = <<>>
     THEN /\ Return(NULL)
          /\ reqs' = <<>>
     ELSE IF cleaned' \in DOMAIN mem
          THEN /\ Return(mem[cleaned'])
               /\ reqs' = <<>>
          ELSE IF key
               THEN /\ reqs' = <<OpenCage(cleaned')>>
                    /\ pc' = "oc"
                    /\ UNCHANGED <<result>>
               ELSE /\ reqs' = <<>>
                    /\ pc' = "pause"
                    /\ UNCHANGED <<result>>
  /\ slept' = (slept /\ reqs' = <<>>)
  /\ UNCHANGED <<envVars, cache, mem, fbi, body, uniq, idx, out, status, calls, nreq>>

\* lines 29-39: a numeric geometry is kept, anything else falls through
OsmAfterOpenCage ==
  /\ impl = "osm"
  /\ pc = "oc"
  /\ \E a \in OpenCageAnswers :
       /\ lastAnswer' = a
       /\ IF a.kind = "first" /\ TypeofNumber(a.g.lat) /\ TypeofNumber(a.g.lng)
          THEN /\ answers' = Append(answers, "hit")
               /\ mem' = MapSet(mem, cleaned, [lat |-> a.g.lat, lng |-> a.g.lng])
               /\ writes' = Append(writes, [store |-> "mem", key |-> cleaned,
                                            val |-> mem'[cleaned]])
               /\ Return([lat |-> a.g.lat, lng |-> a.g.lng])
          ELSE /\ answers' = Append(answers, IF a.kind = "reject" THEN "reject" ELSE "null")
               /\ pc' = "pause"
               /\ UNCHANGED <<mem, writes, result>>
  /\ UNCHANGED <<envVars, handlerVars, cache, address, cleaned, fbi, reqs, hitAtCall,
                 lookups>>

\* mutant of OsmPause: Nominatim is asked with a country appended
OsmPause_Suffixed ==
  /\ impl = "osm"
  /\ pc = "pause"
  /\ pc' = "nom"
  /\ reqs' = Append(reqs, Nominatim(WithCountry(cleaned, USA)))
  /\ slept' = TRUE
  /\ UNCHANGED <<envVars, hpc, body, uniq, idx, out, status, calls, nreq, cache, mem,
                 address, cleaned, fbi, answers, lastAnswer, writes, hitAtCall, lookups,
                 result>>

\* lines 46-56: await sleep(200), then the Nominatim fetch
OsmPause ==
  /\ impl = "osm"
  /\ pc = "pause"
  /\ pc' = "nom"
  /\ reqs' = Append(reqs, Nominatim(cleaned))
  /\ slept' = TRUE
  /\ UNCHANGED <<envVars, hpc, body, uniq, idx, out, status, calls, nreq, cache, mem,
                 address, cleaned, fbi, answers, lastAnswer, writes, hitAtCall, lookups,
                 result>>

\* lines 58-71
OsmAfterNominatim ==
  /\ impl = "osm"
  /\ pc = "nom"
  /\ \E a \in NominatimAnswers :
       /\ lastAnswer' = a
       /\ IF a.kind = "first" /\ IsFinite(parseFloat(a.g.lat))
                              /\ IsFinite(parseFloat(a.g.lon))
          THEN /\ answers' = Append(answers, "hit")
               /\ mem' = MapSet(mem, cleaned, [lat |-> parseFloat(a.g.lat),
                                               lng |-> parseFloat(a.g.lon)])
               /\ writes' = Append(writes, [store |-> "mem", key |-> cleaned,
                                            val |-> mem'[cleaned]])
               /\ Return(mem'[cleaned])
          ELSE /\ answers' = Append(answers, IF a.kind = "reject" THEN "reject" ELSE "null")
               /\ Return(NULL)
               /\ UNCHANGED <<mem, writes>>
  /\ UNCHANGED <<envVars, handlerVars, cache, address, cleaned, fbi, reqs, hitAtCall,
                 lookups>>

(***************************************************************************)
(* geocodeAddress with one query, src/lib/geocode.ts                       *)
(***************************************************************************)
\* lines 4-11: the cache is read under the address as given
SimpleStart ==
  /\ impl = "simple"
  /\ hpc = "call"
  /\ pc = "none"
  /\ hpc' = "await"
  /\ address' = uniq[idx]
  /\ cleaned' = uniq[idx]
  /\ answers' = <<>>
  /\ lastAnswer' = NoAnswer
  /\ writes' = <<>>
  /\ hitAtCall' = (dbUp /\ cleaned' \in DOMAIN cache)
  /\ lookups' = 1
  /\ IF ~dbUp
     THEN /\ Throw(StoreError)
          /\ reqs' = <<>>
     ELSE IF getCoords(cache, cleaned') # NULL
          THEN /\ Return(getCoords(cache, cleaned'))
               /\ reqs' = <<>>
          ELSE IF ~key
               THEN /\ Throw(MissingKey)
                    /\ reqs' = <<>>
               ELSE /\ reqs' = <<OpenCage(cleaned')>>
                    /\ pc' = "simple"
                    /\ UNCHANGED <<result>>
  /\ slept' = (slept /\ reqs' = <<>>)
  /\ UNCHANGED <<envVars, cache, mem, fbi, body, uniq, idx, out, status, calls, nreq>>

\* lines 12-21
SimpleAfterFetch ==
  /\ impl = "simple"
  /\ pc = "simple"
  /\ \E a \in OpenCageAnswers :
       /\ lastAnswer' = a
       /\ answers' = Append(answers, CASE a.kind = "reject" -> "reject"
                                       [] a.kind = "first" -> "hit"
                                       [] OTHER -> "null")
       /\ CASE a.kind = "reject" ->
                 /\ Throw("fetch failed")
                 /\ UNCHANGED <<cache, writes>>
            [] a.kind \in {"http", "empty"} ->
                 /\ Return(NULL)
                 /\ UNCHANGED <<cache, writes>>
            [] a.kind = "first" ->
                 IF dbUp /\ CanBind(a.g.lat) /\ CanBind(a.g.lng)
                 THEN /\ cache' = setCoords(cache, cleaned, a.g.lat, a.g.lng)
                      /\ writes' = Append(writes, [store |-> "db", key |-> cleaned,
                                                   val |-> cache'[cleaned]])
                      /\ Return([lat |-> a.g.lat, lng |-> a.g.lng])
                 ELSE /\ Throw(IF dbUp THEN "sqlite bind" ELSE StoreError)
                      /\ UNCHANGED <<cache, writes>>
  /\ UNCHANGED <<envVars, handlerVars, mem, address, cleaned, fbi, reqs, hitAtCall,
                 lookups>>


(***************************************************************************)
(* The /api/geocode handlers                                               *)
(***************************************************************************)
\* Array.from(new Set(list)): the first occurrence of each element, in order
RECURSIVE Dedup(_)
Dedup(list) ==
  IF list = <<>> THEN <<>>
  ELSE LET init == Dedup(SubSeq(list, 1, Len(list) - 1))
           last == list[Len(list)]
       IN  IF \E i \in 1..Len(init) : init[i] = last THEN init ELSE Append(init, last)

\* .filter(Boolean) on strings
RECURSIVE NonEmpty(_)
NonEmpty(list) ==
  IF list = <<>> THEN <<>>
  ELSE IF Head(list) = <<>> THEN NonEmpty(Tail(list))
       ELSE <<Head(list)>> \o NonEmpty(Tail(list))

\* .slice(0, 400), src/unnamed/part_004:29
SliceCap == 400

\* src/unnamed/part_004:22-29
SeqUniq(b) ==
  LET u == Dedup(NonEmpty([i \in 1..Len(b) |-> Trim(b[i])]))
  IN  SubSeq(u, 1, IF Len(u) < SliceCap THEN Len(u) ELSE SliceCap)

\* src/unnamed/part_004:66
OneAddress(b) == IF Len(b) >= 1 THEN Trim(b[1]) ELSE <<>>

Entry(a, g) == [address |-> a, lat |-> g.lat, lng |-> g.lng]

\* process.env.MAP_SECRET: not set (or empty), or set
Secrets == {"", "s3cret"}

\* req.query.key: absent, the secret, something else
QueryKeys == {"", "s3cret", "guess"}

\* mutant of Unauthorized: a request that gives no key is let through
Unauthorized_OnlyGivenKeys(sec, k) == sec # "" /\ k # "" /\ k # sec

\* process.env.MAP_SECRET && req.query.key !== process.env.MAP_SECRET
\* (src/unnamed/part_004:9, 58; src/pages/api/geocode.ts:5)
Unauthorized(sec, k) == sec # "" /\ k # sec

\* a request arrives; the handler runs up to its loop
Receive ==
  /\ hpc \in {"idle", "done"}
  /\ nreq < MaxRequests
  /\ nreq' = nreq + 1
  /\ \E sec \in Secrets, k \in QueryKeys, b \in Bodies :
       /\ hnd = "one" => Len(b) <= 1
       /\ body' = b
       /\ mismatch' = (sec # "" /\ k # sec)
       /\ IF Unauthorized(sec, k)
          THEN /\ uniq' = <<>>
               /\ hpc' = "done"
               /\ status' = 401
          ELSE CASE hnd = "seq" ->
                      /\ uniq' = SeqUniq(b)
                      /\ hpc' = "iter"
                      /\ status' = 0
                 [] hnd = "batch" ->
                      /\ uniq' = b
                      /\ hpc' = "iter"
                      /\ status' = 0
                 [] hnd = "one" ->
                      IF OneAddress(b) = <<>>
                      THEN /\ uniq' = <<>>
                           /\ hpc' = "done"
                           /\ status' = 400
                      ELSE /\ uniq' = <<OneAddress(b)>>
                           /\ hpc' = "iter"
                           /\ status' = 0
  /\ idx' = 1
  /\ out' = <<>>
  /\ calls' = <<>>
  /\ slept' = TRUE
  /\ UNCHANGED <<impl, hnd, key, dbUp, sideVars, cache, mem, callVars>>

\* the head of the loop: end of the list, a skipped element, the pacing sleep
Iterate ==
  /\ hpc = "iter"
  /\ IF idx > Len(uniq)
     THEN /\ hpc' = "done"
          /\ status' = 200
          /\ UNCHANGED <<idx>>
     ELSE CASE hnd = "seq" ->
                 /\ hpc' = IF idx > 1 THEN "sleep" ELSE "call"
                 /\ UNCHANGED <<idx, status>>
            [] hnd = "batch" ->
                 IF Trim(uniq[idx]) = <<>>
                 THEN /\ idx' = idx + 1
                      /\ UNCHANGED <<hpc, status>>
                 ELSE /\ hpc' = "call"
                      /\ UNCHANGED <<idx, status>>
            [] hnd = "one" ->
                 /\ hpc' = "call"
                 /\ UNCHANGED <<idx, status>>
  /\ UNCHANGED <<envVars, cache, mem, body, uniq, out, calls, nreq, slept, callVars>>

\* await sleep(1100), src/unnamed/part_004:37
Sleep ==
  /\ hpc = "sleep"
  /\ hpc' = "call"
  /\ slept' = TRUE
  /\ UNCHANGED <<envVars, cache, mem, body, uniq, idx, out, status, calls, nreq, callVars>>

\* what the handler sees of a settled call: coordinates, null, or the error
Outcome(r) ==
  IF r.kind = "throw" THEN r.err ELSE IF r.val = NULL THEN "null" ELSE "coords"

\* the awaited geocodeAddress has settled; the handler goes on (the call's
\* locals are dead from here on)
Resume ==
  /\ hpc = "await"
  /\ pc = "ret"
  /\ pc' = "none"
  /\ calls' = Append(calls, Outcome(result))
  /\ CASE hnd = "seq" ->
            /\ out' = IF result.kind = "value" /\ result.val # NULL
                      THEN Append(out, Entry(uniq[idx], result.val))
                      ELSE out
            /\ idx' = idx + 1
            /\ hpc' = "iter"
            /\ UNCHANGED <<status>>
       [] hnd = "batch" ->
            IF result.kind = "throw"
            THEN /\ status' = 500
                 /\ hpc' = "done"
                 /\ UNCHANGED <<out, idx>>
            ELSE /\ out' = IF result.val # NULL
                           THEN Append(out, Entry(uniq[idx], result.val))
                           ELSE out
                 /\ idx' = idx + 1
                 /\ hpc' = "iter"
                 /\ UNCHANGED <<status>>
       [] hnd = "one" ->
            /\ hpc' = "done"
            /\ UNCHANGED <<idx>>
            /\ IF result.kind = "throw"
               THEN /\ status' = 500
                    /\ UNCHANGED <<out>>
               ELSE IF result.val = NULL
                    THEN /\ status' = 404
                         /\ UNCHANGED <<out>>
                    ELSE /\ status' = 200
                         /\ out' = <<Entry(uniq[idx], result.val)>>
  /\ address' = <<>>
  /\ cleaned' = <<>>
  /\ fbi' = 0
  /\ reqs' = <<>>
  /\ answers' = <<>>
  /\ lastAnswer' = NoAnswer
  /\ writes' = <<>>
  /\ hitAtCall' = FALSE
  /\ lookups' = 0
  /\ result' = NULL
  /\ UNCHANGED <<envVars, cache, mem, body, uniq, nreq, slept>>

\* mutant of Restart: the new process starts on an empty database file
Restart_FreshDatabase ==
  /\ hpc = "done"
  /\ hpc' = "idle"
  /\ key' \in BOOLEAN
  /\ mem' = <<>>
  /\ cache' = <<>>
  /\ body' = <<>>
  /\ uniq' = <<>>
  /\ idx' = 1
  /\ out' = <<>>
  /\ status' = 0
  /\ calls' = <<>>
  /\ mismatch' = FALSE
  /\ UNCHANGED <<impl, hnd, dbUp, nreq, slept, callVars, sideVars>>

\* the process starts again, possibly under another environment: the module
\* state is built anew (the memory map is empty) and the database file is
\* opened as it was left (CREATE TABLE IF NOT EXISTS)
Restart ==
  /\ hpc = "done"
  /\ hpc' = "idle"
  /\ key' \in BOOLEAN
  /\ mem' = <<>>
  /\ body' = <<>>
  /\ uniq' = <<>>
  /\ idx' = 1
  /\ out' = <<>>
  /\ status' = 0
  /\ calls' = <<>>
  /\ mismatch' = FALSE
  /\ UNCHANGED <<impl, hnd, dbUp, cache, nreq, slept, callVars, sideVars>>

Next ==
  \/ Receive
  \/ Restart
  \/ Iterate
  \/ Sleep
  \/ Resume
  \/ HintStart
  \/ HintAfterBare
  \/ HintAfterUSA
  \/ HintAfterFallback
  \/ OsmStart
  \/ OsmAfterOpenCage
  \/ OsmPause
  \/ OsmAfterNominatim
  \/ SimpleStart
  \/ SimpleAfterFetch

Spec == Init /\ [][Next]_vars

\* The steps of the handler and of geocodeAddress run as soon as the event
\* loop reaches them; the answer to a fetch is the provider's to give, and no
\* timer or AbortController of the code bounds the wait for it.
LiveSpec ==
  /\ Spec
  /\ WF_vars(Iterate)
  /\ WF_vars(Sleep)
  /\ WF_vars(Resume)
  /\ WF_vars(HintStart)
  /\ WF_vars(OsmStart)
  /\ WF_vars(OsmPause)
  /\ WF_vars(SimpleStart)

(***************************************************************************)
(* The cache-backed versions when the database file can fail               *)
(*                                                                         *)
(* better-sqlite3 is synchronous: prepare, get and run throw when the file *)
(* cannot be read or written (disk full, file locked by another process,   *)
(* read-only mount).  Spec has the file always available; here it comes    *)
(* and goes at any moment.                                                 *)
(***************************************************************************)
StoreInit ==
  /\ NormIdle
  /\ PoolIdle
  /\ TableIdle
  /\ impl \in {"hint", "simple"}
  /\ hnd \in {"seq", "one", "batch"}
  /\ key \in BOOLEAN
  /\ dbUp \in BOOLEAN
  /\ cache = <<>>
  /\ mem = <<>>
  /\ hpc = "idle"
  /\ body = <<>>
  /\ uniq = <<>>
  /\ idx = 1
  /\ out = <<>>
  /\ status = 0
  /\ calls = <<>>
  /\ nreq = 0
  /\ mismatch = FALSE
  /\ slept = TRUE
  /\ pc = "none"
  /\ address = <<>>
  /\ cleaned = <<>>
  /\ fbi = 0
  /\ reqs = <<>>
  /\ answers = <<>>
  /\ lastAnswer = NoAnswer
  /\ writes = <<>>
  /\ hitAtCall = FALSE
  /\ lookups = 0
  /\ result = NULL

\* the file becomes unavailable, or available again
Outage ==
  /\ dbUp' = ~dbUp
  /\ UNCHANGED <<impl, hnd, key, mismatch, sideVars, cache, mem, handlerVars, callVars>>

StoreNext ==
  \/ Receive
  \/ Restart
  \/ Iterate
  \/ Sleep
  \/ Resume
  \/ HintStart
  \/ HintAfterBare
  \/ HintAfterUSA
  \/ HintAfterFallback
  \/ SimpleStart
  \/ SimpleAfterFetch
  \/ Outage

StoreSpec == StoreInit /\ [][StoreNext]_vars

(***************************************************************************)
(* normalizeAddress on its own, src/unnamed/part_003:10-16                 *)
(***************************************************************************)
\* the longest argument
MaxLen == 3

\* a space, a tab, the two line ends, a quote and a letter
NormChars == {" ", "\t", "\n", "\r", "'", "a"}

NormInputs == UNION {[1..n -> NormChars] : n \in 0..MaxLen}

\* the server of Spec, stopped in one of its initial states
ServerIdle ==
  /\ impl = "hint"
  /\ hnd = "seq"
  /\ key = TRUE
  /\ dbUp = TRUE
  /\ cache = <<>>
  /\ mem = <<>>
  /\ hpc = "idle"
  /\ body = <<>>
  /\ uniq = <<>>
  /\ idx = 1
  /\ out = <<>>
  /\ status = 0
  /\ calls = <<>>
  /\ nreq = 0
  /\ mismatch = FALSE
  /\ slept = TRUE
  /\ pc = "none"
  /\ address = <<>>
  /\ cleaned = <<>>
  /\ fbi = 0
  /\ reqs = <<>>
  /\ answers = <<>>
  /\ lastAnswer = NoAnswer
  /\ writes = <<>>
  /\ hitAtCall = FALSE
  /\ lookups = 0
  /\ result = NULL

serverVars == <<impl, hnd, key, dbUp, mismatch, cache, mem, handlerVars, callVars>>

NormInit ==
  /\ ServerIdle
  /\ PoolIdle
  /\ TableIdle
  /\ raw \in NormInputs
  /\ once = <<>>
  /\ twice = <<>>
  /\ npc = 0

\* the first call
NormOnce ==
  /\ npc = 0
  /\ once' = normalizeAddress(raw)
  /\ npc' = 1
  /\ UNCHANGED <<raw, twice, serverVars, poolVars, tableVars>>

\* the call on the first call's result
NormTwice ==
  /\ npc = 1
  /\ twice' = normalizeAddress(once)
  /\ npc' = 2
  /\ UNCHANGED <<raw, once, serverVars, poolVars, tableVars>>

NormNext ==
  \/ NormOnce
  \/ NormTwice

NormSpec == NormInit /\ [][NormNext]_vars


(***************************************************************************)
(* The map page's geocoding effect, src/unnamed/part_001:171-278           *)
(*                                                                         *)
(* One run of the effect: an async function that starts up to CONCURRENCY  *)
(* workers over a shared index, awaits them all and draws the markers; the *)
(* effect's cleanup sets cancelled.  Every await is a point where the      *)
(* cleanup can run.                                                        *)
(***************************************************************************)
\* the longest list of customers
MaxCustomers == 4

ClientAddresses == {A_PLAIN, A_PADDED, A_US, A_UKCA, A_QUOTED}

CustomerLists == UNION {[1..n -> ClientAddresses] : n \in 0..MaxCustomers}

\* what localStorage holds when the effect runs
StoredCaches == {<<>>, [a \in {A_PLAIN} |-> [lat |-> JNum(48), lng |-> JNum(2)]]}

\* what g.json().catch(() => null) can give: no JSON, coordinates, an object
\* whose lat is not a number
ClientBodies ==
  {NULL, [lat |-> JNum(48), lng |-> JNum(2)], [lat |-> JUndef, lng |-> JNum(2)]}

\* line 211
ValidCoords(c) ==
  /\ c # NULL
  /\ TypeofNumber(c.lat)
  /\ TypeofNumber(c.lng)
  /\ c.lat.t # "nan"
  /\ c.lng.t # "nan"

\* mutant of PageAddrs: the list is not de-duplicated
PageAddrs_NoDedup(cs) == [i \in 1..Len(cs) |-> Trim(cs[i])]

\* enriched.map((c) => c.address.trim()), de-duplicated (line 189)
PageAddrs(cs) == Dedup([i \in 1..Len(cs) |-> Trim(cs[i])])

\* mutant of MayDequeue: the loop does not look at the flag
MayDequeue_IgnoreCancel == idxRef < Len(addrs)

\* the worker's loop test (line 236)
MayDequeue == ~cancelled /\ idxRef < Len(addrs)

\* where geocodeOne(a) leaves its worker at its first await (lines 196-200):
\* with a value already (cancelled, or found in the cache) or with a fetch
GeocodeOneEntry(a, gc) ==
  IF cancelled \/ a \in DOMAIN gc THEN "hit" ELSE "fetch"

\* worker w has the result res of its address and goes round its loop
\* (lines 236-239), gc being the run's cache object
Advance(w, res, gc) ==
  /\ results' = MapSet(results, waddr[w], res)
  /\ IF MayDequeue
     THEN /\ idxRef' = idxRef + 1
          /\ waddr' = [waddr EXCEPT ![w] = addrs[idxRef + 1]]
          /\ wpc' = [wpc EXCEPT ![w] = GeocodeOneEntry(addrs[idxRef + 1], gc)]
          /\ fetched' = IF GeocodeOneEntry(addrs[idxRef + 1], gc) = "fetch"
                        THEN Append(fetched, addrs[idxRef + 1])
                        ELSE fetched
          /\ taken' = Append(taken, addrs[idxRef + 1])
     ELSE /\ wpc' = [wpc EXCEPT ![w] = "done"]
          /\ UNCHANGED <<idxRef, waddr, fetched, taken>>

\* setProgress((p) => ({ ...p, done: Math.min(p.done + 1, addrs.length) })),
\* line 227, n being the addrs.length of the closure that runs it
Bump(p, n) == [p EXCEPT !.done = IF p.done + 1 < n THEN p.done + 1 ELSE n]

\* the catch, the not-ok branch or the invalid-coordinates branch, then the
\* finally (lines 206, 218, 223, 227)
CountFail(n) ==
  /\ failCount' = failCount + 1
  /\ progress' = Bump(progress, n)
  /\ UNCHANGED okCount

\* the valid-coordinates branch, then the finally (lines 214, 227)
CountOk(n) ==
  /\ okCount' = okCount + 1
  /\ progress' = Bump(progress, n)
  /\ UNCHANGED failCount

PoolInit ==
  /\ ServerIdle
  /\ NormIdle
  /\ TableIdle
  /\ customers \in CustomerLists
  /\ stored \in StoredCaches
  /\ geoCache = <<>>
  /\ cancelled = FALSE
  /\ addrs = <<>>
  /\ idxRef = 0
  /\ results = <<>>
  /\ wpc = [w \in Workers |-> "off"]
  /\ waddr = [w \in Workers |-> <<>>]
  /\ mpc = "start"
  /\ markers = {}
  /\ fetched = <<>>
  /\ lateWrites = {}
  /\ taken = <<>>
  /\ okCount = 0
  /\ failCount = 0
  /\ progress = [done |-> 0, total |-> 0]
  /\ nrun = 0
  /\ stale = {}
  /\ staleLen = 0
  /\ staleCache = <<>>

\* the effect's body for the customers cs, up to await Promise.all (lines
\* 174-242): the markers are removed, the counters reset, and each worker is
\* called in turn and runs to its first await
Launch(cs) ==
  /\ markers' = {}
  /\ results' = <<>>
  /\ IF cs = <<>>
     THEN /\ mpc' = "quit"
          /\ progress' = [done |-> 0, total |-> 0]
          /\ geoCache' = <<>>
          /\ addrs' = <<>>
          /\ idxRef' = 0
          /\ waddr' = [w \in Workers |-> <<>>]
          /\ wpc' = [w \in Workers |-> "off"]
          /\ fetched' = <<>>
          /\ taken' = <<>>
          /\ UNCHANGED <<okCount, failCount>>
     ELSE LET a == PageAddrs(cs)
              n == IF Len(a) < CONCURRENCY THEN Len(a) ELSE CONCURRENCY
          IN  /\ mpc' = "join"
              /\ geoCache' = stored
              /\ addrs' = a
              /\ progress' = [done |-> 0, total |-> Len(a)]
              /\ okCount' = 0
              /\ failCount' = 0
              /\ idxRef' = n
              /\ waddr' = [w \in Workers |-> IF w <= n THEN a[w] ELSE <<>>]
              /\ wpc' = [w \in Workers |->
                           IF w > n THEN "off"
                           ELSE IF a[w] \in DOMAIN stored THEN "hit" ELSE "fetch"]
              /\ fetched' = SelectSeq(SubSeq(a, 1, n), LAMBDA x : x \notin DOMAIN stored)
              /\ taken' = SubSeq(a, 1, n)

\* the effect runs for the first time
StartWorkers ==
  /\ mpc = "start"
  /\ nrun = 0
  /\ nrun' = 1
  /\ Launch(customers)
  /\ UNCHANGED <<customers, stored, cancelled, lateWrites, stale, staleLen, staleCache>>
  /\ UNCHANGED <<serverVars, normVars, tableVars>>

\* await geocodeOne(addr) when geocodeOne returned without a fetch
WorkerHit(w) ==
  /\ wpc[w] = "hit"
  /\ Advance(w, IF waddr[w] \in DOMAIN geoCache THEN geoCache[waddr[w]] ELSE NULL,
             geoCache)
  /\ UNCHANGED <<customers, stored, geoCache, cancelled, addrs, mpc, markers, lateWrites>>
  /\ UNCHANGED <<countVars, staleVars>>
  /\ UNCHANGED <<serverVars, normVars, tableVars>>

\* await fetch('/api/geocode') settles (lines 200-209, 222-225)
FetchSettles(w) ==
  /\ wpc[w] = "fetch"
  /\ \E o \in {"reject", "notok", "ok"} :
       IF o = "ok"
       THEN /\ wpc' = [wpc EXCEPT ![w] = "json"]
            /\ UNCHANGED <<idxRef, results, waddr, fetched, taken, countVars>>
       ELSE /\ CountFail(Len(addrs))
            /\ Advance(w, NULL, geoCache)
  /\ UNCHANGED <<customers, stored, geoCache, cancelled, addrs, mpc, markers, lateWrites>>
  /\ UNCHANGED staleVars
  /\ UNCHANGED <<serverVars, normVars, tableVars>>

\* await g.json() settles (lines 210-221)
JsonSettles(w) ==
  /\ wpc[w] = "json"
  /\ \E c \in ClientBodies :
       IF ValidCoords(c)
       THEN /\ geoCache' = MapSet(geoCache, waddr[w], [lat |-> c.lat, lng |-> c.lng])
            /\ stored' = geoCache'
            /\ lateWrites' = IF cancelled THEN lateWrites \cup {waddr[w]} ELSE lateWrites
            /\ CountOk(Len(addrs))
            /\ Advance(w, geoCache'[waddr[w]], geoCache')
       ELSE /\ CountFail(Len(addrs))
            /\ Advance(w, NULL, geoCache)
            /\ UNCHANGED <<geoCache, stored, lateWrites>>
  /\ UNCHANGED <<customers, cancelled, addrs, mpc, markers>>
  /\ UNCHANGED staleVars
  /\ UNCHANGED <<serverVars, normVars, tableVars>>

\* results[c.address.trim()] || loadGeoCache()[c.address.trim()] (line 246)
Point(a) ==
  IF a \in DOMAIN results /\ results[a] # NULL THEN results[a]
  ELSE IF a \in DOMAIN stored THEN stored[a] ELSE NULL

\* Promise.all has settled (lines 243-274)
Join ==
  /\ mpc = "join"
  /\ \A w \in Workers : wpc[w] \in {"off", "done"}
  /\ IF cancelled
     THEN /\ mpc' = "quit"
          /\ UNCHANGED <<markers>>
     ELSE /\ mpc' = "drawn"
          /\ markers' = {i \in 1..Len(customers) : Point(Trim(customers[i])) # NULL}
  /\ UNCHANGED <<customers, stored, geoCache, cancelled, addrs, idxRef, results, wpc,
                 waddr, fetched, lateWrites, taken, countVars, staleVars>>
  /\ UNCHANGED <<serverVars, normVars, tableVars>>

\* the effect's cleanup (line 277)
Cancel ==
  /\ mpc \in {"join", "drawn"}
  /\ ~cancelled
  /\ cancelled' = TRUE
  /\ UNCHANGED <<customers, stored, geoCache, addrs, idxRef, results, wpc, waddr, mpc,
                 markers, fetched, lateWrites, taken, countVars, staleVars>>
  /\ UNCHANGED <<serverVars, normVars, tableVars>>

PoolNext ==
  \/ StartWorkers
  \/ \E w \in Workers : WorkerHit(w)
  \/ \E w \in Workers : FetchSettles(w)
  \/ \E w \in Workers : JsonSettles(w)
  \/ Join
  \/ Cancel

PoolSpec == PoolInit /\ [][PoolNext]_vars


(***************************************************************************)
(* The effect runs again, src/unnamed/part_001:171-278                     *)
(*                                                                         *)
(* enriched is a dependency of the effect (line 278): when the customers   *)
(* change, React calls the cleanup of the run before (cancelled = true in  *)
(* that run's closure) and the effect's body again, in one commit.  The    *)
(* fetches the cancelled run still awaits are not aborted; their           *)
(* continuations run in the closure of the cancelled run (its cache        *)
(* object, its addrs.length) and call the page's state setters.            *)
(***************************************************************************)
\* the most runs of the effect
MaxRuns == 2

\* the longest list of customers of a run that is replaced or replaces
MaxRerun == 2

RerunLists == UNION {[1..n -> ClientAddresses] : n \in 0..MaxRerun}

RerunInit ==
  /\ ServerIdle
  /\ NormIdle
  /\ TableIdle
  /\ customers \in RerunLists
  /\ stored \in StoredCaches
  /\ geoCache = <<>>
  /\ cancelled = FALSE
  /\ addrs = <<>>
  /\ idxRef = 0
  /\ results = <<>>
  /\ wpc = [w \in Workers |-> "off"]
  /\ waddr = [w \in Workers |-> <<>>]
  /\ mpc = "start"
  /\ markers = {}
  /\ fetched = <<>>
  /\ lateWrites = {}
  /\ taken = <<>>
  /\ okCount = 0
  /\ failCount = 0
  /\ progress = [done |-> 0, total |-> 0]
  /\ nrun = 0
  /\ stale = {}
  /\ staleLen = 0
  /\ staleCache = <<>>

\* the customers change while no request of an earlier cancelled run is left:
\* the cleanup of the current run (line 277), then the effect's body for the
\* new list; the requests the current run awaits become stale
Rerun ==
  /\ mpc # "start"
  /\ ~cancelled
  /\ stale = {}
  /\ nrun < MaxRuns
  /\ nrun' = nrun + 1
  /\ \E cs \in RerunLists :
       /\ customers' = cs
       /\ Launch(cs)
  /\ stale' = {[pc |-> wpc[w], addr |-> waddr[w]] : w \in {v \in Workers : wpc[v] \in {"fetch", "json"}}}
  /\ staleLen' = Len(addrs)
  /\ staleCache' = geoCache
  /\ UNCHANGED <<stored, cancelled, lateWrites>>
  /\ UNCHANGED <<serverVars, normVars, tableVars>>

\* an await of the cancelled run settles (lines 200-227): the continuation
\* does not test cancelled before it calls the setters, and its worker then
\* leaves its loop (line 236)
StaleSettles ==
  /\ \E s \in stale :
       IF s.pc = "fetch"
       THEN \E o \in {"reject", "notok", "ok"} :
              IF o = "ok"
              THEN /\ stale' = (stale \ {s}) \cup {[pc |-> "json", addr |-> s.addr]}
                   /\ UNCHANGED <<countVars, staleCache, stored, lateWrites>>
              ELSE /\ stale' = stale \ {s}
                   /\ CountFail(staleLen)
                   /\ UNCHANGED <<staleCache, stored, lateWrites>>
       ELSE \E c \in ClientBodies :
              /\ stale' = stale \ {s}
              /\ IF ValidCoords(c)
                 THEN /\ staleCache' = MapSet(staleCache, s.addr, [lat |-> c.lat, lng |-> c.lng])
                      /\ stored' = staleCache'
                      /\ lateWrites' = lateWrites \cup {s.addr}
                      /\ CountOk(staleLen)
                 ELSE /\ CountFail(staleLen)
                      /\ UNCHANGED <<staleCache, stored, lateWrites>>
  /\ UNCHANGED <<customers, geoCache, cancelled, addrs, idxRef, results, wpc, waddr, mpc,
                 markers, fetched, taken, nrun, staleLen>>
  /\ UNCHANGED <<serverVars, normVars, tableVars>>

RerunNext ==
  \/ StartWorkers
  \/ \E w \in Workers : WorkerHit(w)
  \/ \E w \in Workers : FetchSettles(w)
  \/ \E w \in Workers : JsonSettles(w)
  \/ Join
  \/ Cancel
  \/ Rerun
  \/ StaleSettles

RerunSpec == RerunInit /\ [][RerunNext]_vars

(***************************************************************************)
(* The cache module on its own, src/lib/cache.ts                           *)
(*                                                                         *)
(* The table is kept twice: as  the sequence of its rows, on which REPLACE  *)
(* INTO and SELECT are carried out as SQLite does on a table with a        *)
(* primary key, and as the map address -> pair that the server model uses. *)
(***************************************************************************)
\* the number of setCoords calls of a run
MaxPuts == 3

TableKeys == {A_PLAIN, A_US, A_QUOTED}

\* the lat and lng arguments: numbers, and NaN (a number to TypeScript)
TableNumbers == {JNum(48), JNum(2), JNaN}

\* REPLACE INTO on the rows: the NOT NULL columns refuse a value that does not
\* bind; the row that holds the primary key, if any, is deleted; the new row
\* is inserted
ReplaceInto(rs, a, lat, lng) ==
  SelectSeq(rs, LAMBDA r : r.address # a)
    \o <<[address |-> a, lat |-> SqlReal(lat), lng |-> SqlReal(lng)]>>

\* SELECT lat, lng ... WHERE address = ? with .get(): the first matching row
SelectFirst(rs, a) ==
  IF \E i \in 1..Len(rs) : rs[i].address = a
  THEN LET i == CHOOSE i \in 1..Len(rs) :
                  /\ rs[i].address = a
                  /\ \A j \in 1..(i - 1) : rs[j].address # a
       IN  [lat |-> rs[i].lat, lng |-> rs[i].lng]
  ELSE NULL

TableInit ==
  /\ ServerIdle
  /\ NormIdle
  /\ PoolIdle
  /\ TableIdle

\* setCoords(a, lat, lng): better-sqlite3 throws when a value does not bind
\* and the table is left as it was
Put ==
  /\ nput < MaxPuts
  /\ nput' = nput + 1
  /\ \E a \in TableKeys, lat \in TableNumbers, lng \in TableNumbers :
       IF CanBind(lat) /\ CanBind(lng)
       THEN /\ rows' = ReplaceInto(rows, a, lat, lng)
            /\ geo_cache' = setCoords(geo_cache, a, lat, lng)
            /\ lastPut' = MapSet(lastPut, a, [lat |-> lat, lng |-> lng])
       ELSE UNCHANGED <<rows, geo_cache, lastPut>>
  /\ got' = NULL
  /\ UNCHANGED <<serverVars, normVars, poolVars>>

\* getCoords(a)
Get ==
  /\ \E a \in TableKeys : got' = [address |-> a, val |-> getCoords(geo_cache, a)]
  /\ UNCHANGED <<rows, geo_cache, lastPut, nput, serverVars, normVars, poolVars>>

TableNext ==
  \/ Put
  \/ Get

TableSpec == TableInit /\ [][TableNext]_vars

(***************************************************************************)
(* Properties                                                              *)
(***************************************************************************)
\* the requests of the running call that went to one provider
Sent(prov) == {i \in 1..Len(reqs) : reqs[i].prov = prov}

\* the running call has missed its cache and is past its empty-input test
Missed == pc # "none" /\ cleaned # <<>> /\ ~hitAtCall

\* the running call has settled and every request it sent has been answered
Settled == pc = "ret" /\ Len(answers) = Len(reqs)

\* C1: the countries the claim names, in the claim's order
C1_Countries ==
  <<<<"F","r","a","n","c","e">>,
    <<"U","n","i","t","e","d"," ","K","i","n","g","d","o","m">>,
    <<"S","i","n","g","a","p","o","r","e">>,
    <<"A","u","s","t","r","a","l","i","a">>,
    <<"C","h","i","n","a">>,
    <<"J","a","p","a","n">>,
    <<"K","o","r","e","a">>,
    <<"N","e","t","h","e","r","l","a","n","d","s">>>>

C1_Plan(c) ==
  <<OpenCage(c)>> \o
    [i \in 1..Len(C1_Countries) |-> OpenCage(c \o <<",", " ">> \o C1_Countries[i])]

\* C1: when the bare query of a cache-missing call fails and the address has
\* neither a country word nor a US shape, the requests of the call are the
\* bare query followed by the eight countries in the fixed order, cut only
\* after the first query that returned coordinates.
C1_FallbackOrder ==
  (/\ impl = "hint"
   /\ Settled
   /\ reqs # <<>>
   /\ answers[1] # "hit"
   /\ ~hasCountryWord(cleaned)
   /\ ~looksLikeUS(cleaned))
  => LET n == Len(reqs)
     IN  /\ n <= Len(C1_Plan(cleaned))
         /\ reqs = SubSeq(C1_Plan(cleaned), 1, n)
         /\ \A i \in 1..(n - 1) : answers[i] # "hit"
         /\ n < Len(C1_Plan(cleaned)) => answers[n] = "hit"

C2_UsaQuery == OpenCage(cleaned \o <<",", " ", "U", "S", "A">>)

\* C2: the ", USA" query is sent if and only if the bare query yielded no
\* coordinates and the address has no country word and looks like a US
\* address; it is sent at most once, right after the bare query.
C2_UsaIff ==
  (impl = "hint" /\ Settled /\ reqs # <<>>)
  => LET P == {i \in 1..Len(reqs) : reqs[i] = C2_UsaQuery}
     IN  /\ P # {} <=> (/\ answers[1] # "hit"
                        /\ ~hasCountryWord(cleaned)
                        /\ looksLikeUS(cleaned))
         /\ P \subseteq {2}

\* C3: a call whose normalized address holds a country word sends nothing but
\* the bare normalized address, at most once, and exactly once when it missed
\* the cache with the credential present, whatever the answer.
C3_CountryWordOneQuery ==
  (impl = "hint" /\ pc # "none" /\ hasCountryWord(normalizeAddress(address)))
  => /\ Len(reqs) <= 1
     /\ \A i \in 1..Len(reqs) : reqs[i] = OpenCage(normalizeAddress(address))
     /\ (Missed /\ key) => Len(reqs) = 1

\* C3 witness: a US-shaped address with a country word, bare query answered
\* with no result, call settled after that single query
C3_Witness ==
  /\ impl = "hint"
  /\ Settled
  /\ hasCountryWord(cleaned)
  /\ looksLikeUS(cleaned)
  /\ Len(reqs) = 1
  /\ lastAnswer.kind = "empty"
  /\ result = Value(NULL)

NormalizedKeys == {normalizeAddress(a) : a \in RawAddresses}

\* C5: when the last answer of a call carries coordinates, they are written
\* once, under the normalized address, and the call returns what it stored;
\* no row is ever keyed by anything but a normalized address.
C5_WrittenOnceUnderNormalizedKey ==
  /\ (impl = "hint" /\ Settled /\ lastAnswer.kind = "first" /\ lastAnswer.g \in GoodGeo)
     => /\ writes = <<[store |-> "db", key |-> normalizeAddress(address),
                       val |-> lastAnswer.g]>>
        /\ cache[normalizeAddress(address)] = lastAnswer.g
        /\ result = Value(cache[normalizeAddress(address)])
  /\ impl = "hint" => (Len(writes) <= 1 /\ DOMAIN cache \subseteq NormalizedKeys)

\* C5 witness: a quoted address resolved by a country-suffixed query
C5_Witness ==
  /\ impl = "hint"
  /\ Settled
  /\ Len(reqs) >= 2
  /\ address # cleaned
  /\ lastAnswer.kind = "first"
  /\ lastAnswer.g \in GoodGeo
  /\ Len(writes) = 1

\* C6: a call all of whose attempts failed to yield coordinates returns null,
\* not an error, and has written nothing.
C6_ExhaustionIsNull ==
  (/\ impl \in {"hint", "osm"}
   /\ Settled
   /\ reqs # <<>>
   /\ \A i \in 1..Len(answers) : answers[i] # "hit")
  => (result = Value(NULL) /\ writes = <<>>)

\* some OpenCage request of the call was answered with coordinates
PrimaryHit ==
  \E i \in 1..Len(answers) : reqs[i].prov = "opencage" /\ answers[i] = "hit"

HintPlanLen(c) ==
  1 + (IF ~hasCountryWord(c) /\ looksLikeUS(c) THEN 1 ELSE 0)
    + (IF ~hasCountryWord(c) THEN Len(C1_Countries) ELSE 0)

\* C8: an attempt that ends in a non-success status or a transport exception
\* does not abort the call: the call does not throw, and it settles only once
\* every attempt an empty result would have led to has been made.
C8_FailureIsNotFound ==
  (Settled /\ impl \in {"hint", "osm"} /\ lastAnswer.kind \in {"http", "reject"})
  => /\ result.kind = "value"
     /\ impl = "hint" => Len(reqs) = HintPlanLen(cleaned)
     /\ impl = "osm" => reqs[Len(reqs)].prov = "nominatim"

\* C9: without the credential, a call that missed its cache has thrown the
\* configuration error when it settles, having sent no request and written
\* nothing.
C9_MissingKeyThrows ==
  (Settled /\ Missed /\ ~key)
  => /\ reqs = <<>>
     /\ writes = <<>>
     /\ result = Thrown(MissingKey)

\* C10: in a batch handler, a call that threw the configuration error is the
\* last call of the request, and the response is not a 200.
C10_MissingKeyFatalForBatch ==
  (hnd \in {"seq", "batch"} /\ hpc = "done")
  => \A i \in 1..Len(calls) :
       calls[i] = MissingKey => (i = Len(calls) /\ status # 200)


\* C11: applying normalizeAddress to its own result changes nothing.
C11_Idempotent == npc = 2 => twice = once

\* C12: an argument made of spaces, tabs and line ends only (or of nothing)
\* is normalized to the empty string.
C12_BlankToEmpty ==
  (npc >= 1 /\ \A i \in 1..Len(raw) : raw[i] \in WS) => once = <<>>


FinitePair(c) == IsFinite(c.lat) /\ IsFinite(c.lng)

\* C14: every pair stored in the durable cache or in the memory map, and
\* every pair a call returns, has a finite number for lat and for lng.
C14_FiniteCoordinates ==
  /\ \A k \in DOMAIN cache : FinitePair(cache[k])
  /\ \A k \in DOMAIN mem : FinitePair(mem[k])
  /\ (pc = "ret" /\ result.kind = "value" /\ result.val # NULL) => FinitePair(result.val)


\* the distinct normalized addresses of the request being served
BodyKeys == {normalizeAddress(body[i]) : i \in 1..Len(body)}

\* C15: a batch request calls geocodeAddress at most once for each distinct
\* normalized address of its body, and the entries of its result that share
\* a normalized address carry the same coordinates.
C15_OncePerAddress ==
  hnd \in {"seq", "batch"}
  => /\ Len(calls) <= Cardinality(BodyKeys)
     /\ \A i, j \in 1..Len(out) :
          normalizeAddress(out[i].address) = normalizeAddress(out[j].address)
          => (out[i].lat = out[j].lat /\ out[i].lng = out[j].lng)


\* the number of addresses of the request that are to be resolved
ToResolve ==
  IF hnd = "seq" THEN Len(uniq)
  ELSE Cardinality({i \in 1..Len(body) : Trim(body[i]) # <<>>})

\* C16: a finished batch request that passed the MAP_SECRET test and in which
\* no call met the missing credential has called geocodeAddress for every
\* address to resolve, whatever the outcome of the calls before, and answers
\* 200 with one entry for each call that returned coordinates.
C16_NoAbortOnFailure ==
  (/\ hnd \in {"seq", "batch"}
   /\ hpc = "done"
   /\ ~mismatch
   /\ \A i \in 1..Len(calls) : calls[i] # MissingKey)
  => /\ status = 200
     /\ Len(calls) = ToResolve
     /\ Len(out) = Cardinality({i \in 1..Len(calls) : calls[i] = "coords"})


\* this step sends a request to OpenCage
SendsPrimary ==
  /\ Len(reqs') > Len(reqs)
  /\ reqs'[Len(reqs')].prov = "opencage"

\* C17: within one batch request, every OpenCage query but the first is sent
\* after a sleep that followed the query before it.
C17_Paced == [][SendsPrimary => slept]_vars


\* C18: a batch request that has entered its loop finishes, whether or not
\* the provider answers the fetches of its calls.
C18_BatchFinishes == (hpc = "iter") ~> (hpc = "done")


\* C19: once cancelled is set, no worker takes another address, no fetch is
\* started and no marker is drawn.
C19_CancelStopsNewWork ==
  [][cancelled => (idxRef' = idxRef /\ fetched' = fetched /\ markers' = markers)]_vars

\* C19 witness: a cancelled run has ended with addresses left in the queue,
\* a fetch that was in flight has completed and cached its result after the
\* cancellation, and no marker is drawn
C19_Witness ==
  /\ cancelled
  /\ mpc = "quit"
  /\ idxRef < Len(addrs)
  /\ lateWrites # {}
  /\ markers = {}


\* what the puts so far say getCoords(a) must return
Expected(a) == IF a \in DOMAIN lastPut THEN lastPut[a] ELSE NULL

\* C20: getCoords(k) returns the pair of the most recent setCoords(k, ...),
\* or null when there was none, whatever was put under other keys; the
\* table holds at most one row per address, and reading the rows gives what
\* reading the map gives.
C20_UpsertMap ==
  /\ \A a \in TableKeys :
       /\ getCoords(geo_cache, a) = Expected(a)
       /\ SelectFirst(rows, a) = getCoords(geo_cache, a)
       /\ Cardinality({i \in 1..Len(rows) : rows[i].address = a}) <= 1
  /\ got # NULL => got.val = Expected(got.address)

\* C20 witness: a key put twice with different pairs, another key put in
\* between, and the first key read back
C20_Witness ==
  /\ nput = 3
  /\ Len(rows) = 2
  /\ rows[2].address = A_PLAIN
  /\ got # NULL
  /\ got.address = A_PLAIN
  /\ got.val = [lat |-> JNum(2), lng |-> JNum(48)]


\* C21: a call of a cache-backed version never ends with the error of the
\* cache: a lookup that fails is a miss (the call goes on to the provider
\* when it has the key), and when the last answer carries coordinates the
\* call returns them whether or not they could be written.
C21_CacheFailureTolerated ==
  (impl \in {"hint", "simple"} /\ pc = "ret")
  => /\ result # Thrown(StoreError)
     /\ (Settled /\ lastAnswer.kind = "first" /\ lastAnswer.g \in GoodGeo)
        => result = Value(lastAnswer.g)


\* the address strings the request submitted
Submitted == {body[j] : j \in 1..Len(body)}

\* C22: when a call of a batch request settles, the result array gains an
\* entry if and only if the call returned coordinates; the entry carries
\* those coordinates under the submitted address string the call was made
\* for.
C22_EntryPerResolvedAddress ==
  [][(hnd \in {"seq", "batch"} /\ hpc = "await" /\ pc = "ret" /\ pc' = "none")
     => IF result.kind = "value" /\ result.val # NULL
        THEN \E b \in Submitted :
               /\ Trim(b) = Trim(address)
               /\ out' = Append(out, Entry(b, result.val))
        ELSE out' = out]_vars


AtFetch == pc \in {"bare", "usa", "fb", "oc", "nom", "simple"}

\* C26: at any moment the requests of a call are all answered but at most
\* one, the last, and that one is unanswered exactly while the call is
\* suspended at its fetch: a request is sent only once every earlier one
\* has its answer.
C26_OneAttemptAtATime ==
  impl \in {"hint", "osm"}
  => /\ Len(answers) <= Len(reqs)
     /\ Len(reqs) <= Len(answers) + 1
     /\ (Len(reqs) = Len(answers) + 1) <=> AtFetch

\* C26 witness: the second fallback country is in flight, the bare query and
\* the first country have been answered
C26_Witness ==
  /\ impl = "hint"
  /\ pc = "fb"
  /\ fbi = 2
  /\ Len(reqs) = 3
  /\ Len(answers) = 2
  /\ reqs[3] = OpenCage(WithCountry(cleaned, fallbacks[2]))


\* C27: a call of the country-hint version sends at most ten OpenCage
\* requests, one bare, at most one with ", USA" and at most eight with a
\* fallback country, and once its requests have all been answered it has
\* ended with coordinates or with null.
C27_BoundedAndTotal ==
  (impl = "hint" /\ pc # "none")
  => /\ Len(reqs) <= 10
     /\ Sent("opencage") = 1..Len(reqs)
     /\ Cardinality({i \in 1..Len(reqs) : reqs[i].q = WithCountry(cleaned, USA)}) <= 1
     /\ Cardinality({i \in 1..Len(reqs) :
                       \E k \in 1..Len(fallbacks) :
                         reqs[i].q = WithCountry(cleaned, fallbacks[k])}) <= 8
     /\ (Settled /\ reqs # <<>>) => result.kind = "value"


\* C28: a request whose key is not the configured MAP_SECRET is answered 401
\* at once: no address is taken from it, geocodeAddress is not called, no
\* provider request is sent and the cache and the memory map stay as they
\* were.
C28_UnauthorizedDoesNothing ==
  [][mismatch' => /\ hpc' = "done"
                  /\ status' = 401
                  /\ uniq' = <<>>
                  /\ calls' = <<>>
                  /\ pc' = "none"
                  /\ reqs' = <<>>
                  /\ cache' = cache
                  /\ mem' = mem]_vars

\* C28 witness: a request with two addresses and a wrong key, answered 401 by
\* a process that has the OpenCage key and a cache filled by an earlier
\* request
C28_Witness ==
  /\ mismatch
  /\ status = 401
  /\ hpc = "done"
  /\ Len(body) = 2
  /\ key
  /\ nreq = 2
  /\ Cardinality(DOMAIN cache) = 1
  /\ calls = <<>>

(***************************************************************************)
(* The worker pool of the map page                                         *)
(***************************************************************************)
\* the workers that await their fetch or its body
InFlight == {w \in Workers : wpc[w] \in {"fetch", "json"}}

\* the distinct addresses of the customers, as the page computes them
DistinctAddresses == {Trim(customers[i]) : i \in 1..Len(customers)}

\* C24: in one run of the pool at most CONCURRENCY = 3 requests are in flight
\* (the requests sent less the requests finished are those of the awaiting
\* workers), the addresses are dequeued in the order of the list with none
\* skipped and none taken twice, and a run that drew its markers dequeued
\* every distinct address of the customers
C24_PoolBoundedAndInOrder ==
  /\ Cardinality(InFlight) <= 3
  /\ Len(fetched) - (okCount + failCount) = Cardinality(InFlight)
  /\ idxRef = Len(taken)
  /\ Len(taken) <= Len(addrs)
  /\ \A i \in 1..Len(taken) : i <= Len(addrs) /\ taken[i] = addrs[i]
  /\ \A i, j \in 1..Len(taken) : taken[i] = taken[j] => i = j
  /\ mpc = "drawn"
       => /\ Len(taken) = Len(addrs)
          /\ {taken[i] : i \in 1..Len(taken)} = DistinctAddresses

\* four distinct addresses: the second worker finished first and took the
\* fourth address while the other two requests are still awaited
C24_Witness ==
  /\ ~cancelled
  /\ Len(addrs) = 4
  /\ Len(taken) = 4
  /\ Cardinality(InFlight) = 3
  /\ wpc[1] = "fetch"
  /\ waddr[1] = addrs[1]
  /\ waddr[2] = addrs[4]
  /\ wpc[3] = "json"
  /\ Len(fetched) = 4

\* the addresses of the run that got coordinates, and those that got null
Resolved == {a \in DOMAIN results : results[a] # NULL}

Failed == {a \in DOMAIN results : results[a] = NULL}

\* C25: while the run is not cancelled okCount + failCount is the number of
\* addresses processed so far (exactly one counter moved for each), and when
\* the run has drawn its markers okCount is the number of addresses that
\* resolved, failCount the number that failed, and their sum the batch size
C25_CountersMatchOutcomes ==
  /\ (nrun = 1 /\ ~cancelled) => okCount + failCount = Cardinality(DOMAIN results)
  /\ mpc = "drawn"
       => /\ okCount = Cardinality(Resolved)
          /\ failCount = Cardinality(Failed)
          /\ okCount + failCount = Len(addrs)

\* C29: while the run is not cancelled progress.done is the number of
\* addresses processed so far, those answered from the browser's cache
\* included, and a run that has drawn its markers has progress.done equal to
\* progress.total
C29_ProgressReachesTotal ==
  /\ (nrun = 1 /\ ~cancelled) => progress.done = Cardinality(DOMAIN results)
  /\ mpc = "drawn" => progress.done = progress.total

\* C30: once the effect has run again for a non-empty list, okCount, failCount
\* and progress.done count addresses processed by the new run only, and
\* progress.done never exceeds progress.total
C30_StaleCompletionsIgnored ==
  /\ (nrun = 2 /\ customers # <<>>)
       => /\ okCount <= Cardinality(Resolved)
          /\ failCount <= Cardinality(Failed)
          /\ progress.done <= Cardinality(DOMAIN results)
  /\ progress.done <= progress.total

====
